---- MODULE Spec2Model ----
(***************************************************************************)
(* Post scheduling and publication: the post store, schedule_post,         *)
(* unschedule_post, create_post, and the due-post sweep                    *)
(* (PostSchedulerService.process_due_posts) run by the periodic loop and   *)
(* by the manual trigger.                                                  *)
(*                                                                         *)
(* Time is in whole seconds since midnight of day 0.  A nullable column is *)
(* a sequence of length 0 (None) or 1 (the value).                         *)
(***************************************************************************)
EXTENDS Integers, Sequences, FiniteSets, TLC

----------------------------------------------------------------------------
(* Bounds of the model *)

MaxPosts == 2          \* posts ever created
MaxTicks == 2          \* minutes the clock runs

----------------------------------------------------------------------------
(* Program constants *)

interval_seconds == 30         \* main.py: run_scheduler(interval_seconds=30)

DRAFT     == "draft"
SCHEDULED == "scheduled"
PUBLISHED == "published"
FAILED    == "failed"

PostStatus == {DRAFT, SCHEDULED, PUBLISHED, FAILED}

None == <<>>
Some(x) == <<x>>
IsSet(o) == o # None
Val(o) == o[1]

----------------------------------------------------------------------------
(* Messages returned by the scheduling engine *)

MsgNotFound     == "Post not found"
MsgBadDate      == "Invalid date format. Use YYYY-MM-DD"
MsgHour         == "Hour must be between 0-23"
MsgMinute       == "Minute must be between 0-59"
MsgPast         == "Cannot schedule post in the past"
MsgCommit       == "Error scheduling post"
MsgScheduled    == "Post scheduled"
MsgNotScheduled == "Post is not scheduled"
MsgUnscheduled  == "Post unscheduled successfully"
MsgUnschedErr   == "Error unscheduling post"
MsgPublishFail  == "Failed to publish to LinkedIn"

MsgCannot(st) ==
    CASE st = PUBLISHED -> "Cannot schedule post with status: published"
      [] st = FAILED    -> "Cannot schedule post with status: failed"
      [] st = DRAFT     -> "Cannot schedule post with status: draft"
      [] st = SCHEDULED -> "Cannot schedule post with status: scheduled"

----------------------------------------------------------------------------
VARIABLES
    posts,          \* the committed rows of table posts; row id = index
    now,            \* datetime.utcnow()
    running,        \* PostSchedulerService.running
    pc,             \* per runner: where its coroutine is suspended
    current_time,   \* per runner: process_due_posts' current_time
    due_posts,      \* per runner: ids returned by the due query, in order
    loaded,         \* per runner: the rows as the session loaded them
    mem,            \* per runner: the session's objects (uncommitted)
    idx,            \* per runner: position of the for loop in due_posts
    outcome,        \* per runner: what the worker did for each due post so far
    processed,      \* per runner: process_due_posts' counter
    wake_at,        \* per loop task: when its asyncio.sleep(interval_seconds) ends
    last            \* the call that completed last and what it returned

vars == <<posts, now, running, pc, current_time, due_posts, loaded, mem,
          idx, outcome, processed, wake_at, last>>

sweepVars == <<current_time, due_posts, loaded, mem, idx, outcome, processed>>

\* "loop" is the task that lifespan creates, "manual" the manual trigger;
\* "loop2" is the task of one more call of run_scheduler.
Runners == {"loop", "manual"}
LoopTasks == {"loop", "loop2"}
Tasks == Runners \cup LoopTasks

PostIds == 1..Len(posts)

----------------------------------------------------------------------------
(* Rows of table posts (the columns the scheduling core reads or writes) *)

Columns == {"status", "scheduled_for", "published_at", "linkedin_post_id",
            "error_message"}

NewPost(st) ==
    [status           |-> st,
     scheduled_for    |-> None,
     published_at     |-> None,
     linkedin_post_id |-> None,
     error_message    |-> None]

----------------------------------------------------------------------------
(* Dates.  A date string either has the form YYYY-MM-DD and names a day,   *)
(* or it does not parse.                                                   *)

DateString(day) == [form |-> "YYYY-MM-DD", day |-> day]
BadDateString   == [form |-> "other", day |-> 0]

ComposeDatetime_HourAsMinutes(date, hour, minute) ==
    IF date.form # "YYYY-MM-DD" THEN None
    ELSE IF ~(hour \in 0..23) \/ ~(minute \in 0..59) THEN None
    ELSE Some(date.day * 86400 + hour * 60 + minute * 60)

\* datetime.strptime(date, '%Y-%m-%d').replace(hour=, minute=, second=0):
\* None stands for the ValueError that strptime or replace raises.
ComposeDatetime(date, hour, minute) ==
    IF date.form # "YYYY-MM-DD" THEN None
    ELSE IF ~(hour \in 0..23) \/ ~(minute \in 0..59) THEN None
    ELSE Some(date.day * 86400 + hour * 3600 + minute * 60)

\* strftime('%Y-%m-%d'), .hour and .minute of a datetime
DateOf(t)   == DateString(t \div 86400)
HourOf(t)   == (t % 86400) \div 3600
MinuteOf(t) == (t % 3600) \div 60

validate_schedule_time_OrNow(scheduled_for, t) == scheduled_for >= t

validate_schedule_time(scheduled_for, t) == scheduled_for > t

CanSchedule_NotDraftOnly(status) == status \in {DRAFT, SCHEDULED, PUBLISHED}

CanSchedule_DraftOnly(status) == status = DRAFT

CanSchedule_FailedToo(status) == status \in {DRAFT, SCHEDULED, FAILED}

\* schedule_post, lines 150-152: the statuses a post can be scheduled from
CanSchedule(status) == status \in {DRAFT, SCHEDULED}

----------------------------------------------------------------------------
(* schedule_post as a function of the store, the clock and its arguments.  *)
(* commit_ok says whether db.commit() went through.                        *)

\* the row is written before the time is validated
ScheduleOutcome_WritesFirst(store, t, post_id, date, hour, minute, commit_ok) ==
    IF ~(post_id \in 1..Len(store)) THEN
        [success |-> FALSE, message |-> MsgNotFound, store |-> store]
    ELSE IF ~CanSchedule(store[post_id].status) THEN
        [success |-> FALSE, message |-> MsgCannot(store[post_id].status),
         store |-> store]
    ELSE IF ComposeDatetime(date, hour, minute) = None THEN
        [success |-> FALSE, message |-> MsgBadDate, store |-> store]
    ELSE
        LET written == [store EXCEPT ![post_id] =
                          [@ EXCEPT !.scheduled_for = ComposeDatetime(date, hour, minute),
                                    !.status = SCHEDULED,
                                    !.error_message = None]]
        IN IF ~validate_schedule_time(Val(ComposeDatetime(date, hour, minute)), t)
           THEN [success |-> FALSE, message |-> MsgPast, store |-> written]
           ELSE IF ~commit_ok
           THEN [success |-> FALSE, message |-> MsgCommit, store |-> store]
           ELSE [success |-> TRUE, message |-> MsgScheduled, store |-> written]

ScheduleOutcome_PastFirst(store, t, post_id, date, hour, minute, commit_ok) ==
    IF ~(post_id \in 1..Len(store)) THEN
        [success |-> FALSE, message |-> MsgNotFound, store |-> store]
    ELSE IF /\ ComposeDatetime(date, hour, minute) # None
            /\ ~validate_schedule_time(Val(ComposeDatetime(date, hour, minute)), t) THEN
        [success |-> FALSE, message |-> MsgPast, store |-> store]
    ELSE IF ~CanSchedule(store[post_id].status) THEN
        [success |-> FALSE, message |-> MsgCannot(store[post_id].status),
         store |-> store]
    ELSE IF ComposeDatetime(date, hour, minute) = None THEN
        [success |-> FALSE, message |-> MsgBadDate, store |-> store]
    ELSE IF ~commit_ok THEN
        [success |-> FALSE, message |-> MsgCommit, store |-> store]
    ELSE
        [success |-> TRUE, message |-> MsgScheduled,
         store |-> [store EXCEPT ![post_id] =
                      [@ EXCEPT !.scheduled_for = ComposeDatetime(date, hour, minute),
                                !.status = SCHEDULED,
                                !.error_message = None]]]

ScheduleOutcome(store, t, post_id, date, hour, minute, commit_ok) ==
    IF ~(post_id \in 1..Len(store)) THEN
        [success |-> FALSE, message |-> MsgNotFound, store |-> store]
    ELSE IF ~CanSchedule(store[post_id].status) THEN
        [success |-> FALSE, message |-> MsgCannot(store[post_id].status),
         store |-> store]
    ELSE IF ComposeDatetime(date, hour, minute) = None THEN
        [success |-> FALSE, message |-> MsgBadDate, store |-> store]
    ELSE IF ~(0 <= hour /\ hour <= 23) THEN
        [success |-> FALSE, message |-> MsgHour, store |-> store]
    ELSE IF ~(0 <= minute /\ minute <= 59) THEN
        [success |-> FALSE, message |-> MsgMinute, store |-> store]
    ELSE IF ~validate_schedule_time(Val(ComposeDatetime(date, hour, minute)), t) THEN
        [success |-> FALSE, message |-> MsgPast, store |-> store]
    ELSE IF ~commit_ok THEN
        [success |-> FALSE, message |-> MsgCommit, store |-> store]
    ELSE
        [success |-> TRUE, message |-> MsgScheduled,
         store |-> [store EXCEPT ![post_id] =
                      [@ EXCEPT !.scheduled_for = ComposeDatetime(date, hour, minute),
                                !.status = SCHEDULED,
                                !.error_message = None]]]

UnscheduleOutcome_KeepsTime(store, post_id, commit_ok) ==
    IF ~(post_id \in 1..Len(store)) THEN
        [success |-> FALSE, message |-> MsgNotFound, store |-> store]
    ELSE IF store[post_id].status # SCHEDULED THEN
        [success |-> FALSE, message |-> MsgNotScheduled, store |-> store]
    ELSE IF ~commit_ok THEN
        [success |-> FALSE, message |-> MsgUnschedErr, store |-> store]
    ELSE
        [success |-> TRUE, message |-> MsgUnscheduled,
         store |-> [store EXCEPT ![post_id] = [@ EXCEPT !.status = DRAFT]]]

\* unschedule_post, likewise
UnscheduleOutcome(store, post_id, commit_ok) ==
    IF ~(post_id \in 1..Len(store)) THEN
        [success |-> FALSE, message |-> MsgNotFound, store |-> store]
    ELSE IF store[post_id].status # SCHEDULED THEN
        [success |-> FALSE, message |-> MsgNotScheduled, store |-> store]
    ELSE IF ~commit_ok THEN
        [success |-> FALSE, message |-> MsgUnschedErr, store |-> store]
    ELSE
        [success |-> TRUE, message |-> MsgUnscheduled,
         store |-> [store EXCEPT ![post_id] =
                      [@ EXCEPT !.status = DRAFT, !.scheduled_for = None]]]

----------------------------------------------------------------------------
(* The due query of process_due_posts:                                     *)
(*   status == SCHEDULED and scheduled_for <= current_time                 *)
(* (a NULL scheduled_for never satisfies <=).  Rows come back in id order. *)

IsDue_AnyTime(row, t) ==
    /\ row.status = SCHEDULED
    /\ IsSet(row.scheduled_for)

IsDue_NotIfErrored(row, t) ==
    /\ row.status = SCHEDULED
    /\ IsSet(row.scheduled_for)
    /\ Val(row.scheduled_for) <= t
    /\ row.error_message = None

IsDue(row, t) ==
    /\ row.status = SCHEDULED
    /\ IsSet(row.scheduled_for)
    /\ Val(row.scheduled_for) <= t

Ids(store) == [i \in 1..Len(store) |-> i]

DueQuery_AllScheduled(store, t) ==
    LET Test(i) == store[i].status = SCHEDULED IN SelectSeq(Ids(store), Test)

DueQuery(store, t) ==
    LET Test(i) == IsDue(store[i], t) IN SelectSeq(Ids(store), Test)

AfterPublish_NoExternalId(row, post_id, res, t) ==
    CASE res = "success" ->
            [row EXCEPT !.status = PUBLISHED, !.published_at = Some(t)]
      [] res = "failure" ->
            [row EXCEPT !.error_message = Some(MsgPublishFail)]
      [] res = "error" ->
            [row EXCEPT !.error_message = Some("publisher error")]

AfterPublish_MarksFailed(row, post_id, res, t) ==
    CASE res = "success" ->
            [row EXCEPT !.status = PUBLISHED,
                        !.published_at = Some(t),
                        !.linkedin_post_id = Some([post |-> post_id, ts |-> t])]
      [] res = "failure" ->
            [row EXCEPT !.status = FAILED,
                        !.error_message = Some(MsgPublishFail)]
      [] res = "error" ->
            [row EXCEPT !.error_message = Some("publisher error")]

AfterPublish_ErrorUnrecorded(row, post_id, res, t) ==
    CASE res = "success" ->
            [row EXCEPT !.status = PUBLISHED,
                        !.published_at = Some(t),
                        !.linkedin_post_id = Some([post |-> post_id, ts |-> t])]
      [] res = "failure" ->
            [row EXCEPT !.error_message = Some(MsgPublishFail)]
      [] res = "error" -> row

AfterPublish_ClearsError(row, post_id, res, t) ==
    CASE res = "success" ->
            [row EXCEPT !.status = PUBLISHED,
                        !.published_at = Some(t),
                        !.linkedin_post_id = Some([post |-> post_id, ts |-> t]),
                        !.error_message = None]
      [] res = "failure" ->
            [row EXCEPT !.error_message = Some(MsgPublishFail)]
      [] res = "error" ->
            [row EXCEPT !.error_message = Some("publisher error")]

AfterPublish_FailedAfterRetry(row, post_id, res, t) ==
    CASE res = "success" ->
            [row EXCEPT !.status = PUBLISHED,
                        !.published_at = Some(t),
                        !.linkedin_post_id = Some([post |-> post_id, ts |-> t])]
      [] res = "failure" ->
            [row EXCEPT !.status = IF IsSet(row.error_message) THEN FAILED ELSE @,
                        !.error_message = Some(MsgPublishFail)]
      [] res = "error" ->
            [row EXCEPT !.error_message = Some("publisher error")]

\* What the for-loop body does to the session's object of one due post,
\* once the worker has returned (res) at clock reading t.
AfterPublish(row, post_id, res, t) ==
    CASE res = "success" ->
            [row EXCEPT !.status = PUBLISHED,
                        !.published_at = Some(t),
                        !.linkedin_post_id = Some([post |-> post_id, ts |-> t])]
      [] res = "failure" ->
            [row EXCEPT !.error_message = Some(MsgPublishFail)]
      [] res = "error" ->
            [row EXCEPT !.error_message = Some("publisher error")]

Counted(res) == IF res \in {"success", "failure"} THEN 1 ELSE 0

FlushRow_StatusOnly(row, was, is) ==
    [c \in Columns |-> IF c = "status" /\ is[c] # was[c] THEN is[c] ELSE row[c]]

\* db.commit() of the sweep's session: one UPDATE per loaded row, setting
\* exactly the columns whose value differs from the value that was loaded.
FlushRow(row, was, is) ==
    [c \in Columns |-> IF is[c] # was[c] THEN is[c] ELSE row[c]]

RECURSIVE Flush(_, _, _, _)
Flush(store, ids, was, is) ==
    IF ids = <<>> THEN store
    ELSE Flush([store EXCEPT ![Head(ids)] = FlushRow(@, Head(was), Head(is))],
               Tail(ids), Tail(was), Tail(is))

----------------------------------------------------------------------------
Init ==
    /\ posts = <<>>
    /\ now = 0
    /\ running = FALSE
    /\ pc = [r \in Tasks |-> IF r \in LoopTasks THEN "off" ELSE "idle"]
    /\ current_time = [r \in Tasks |-> 0]
    /\ due_posts = [r \in Tasks |-> <<>>]
    /\ loaded = [r \in Tasks |-> <<>>]
    /\ mem = [r \in Tasks |-> <<>>]
    /\ idx = [r \in Tasks |-> 0]
    /\ outcome = [r \in Tasks |-> <<>>]
    /\ processed = [r \in Tasks |-> 0]
    /\ wake_at = [l \in LoopTasks |-> 0]
    /\ last = [op |-> "none"]

\* The clock moves on.
Tick ==
    /\ now < MaxTicks * 60
    /\ now' = now + 60
    /\ UNCHANGED <<posts, running, pc, sweepVars, wake_at, last>>

----------------------------------------------------------------------------
(* Requests of the scheduling engine.  Each handler runs without an await, *)
(* so each is one step.                                                    *)

\* the (date, hour, minute) arguments tried
ScheduleArgs ==
    { <<DateString(0), 0, 1>>,  <<DateString(0), 0, 2>>,
      <<DateString(1), 23, 59>>, <<DateString(0), 0, 0>>,
      <<BadDateString, 0, 1>>,  <<DateString(1), 24, 0>>,
      <<DateString(1), -1, 0>>, <<DateString(1), 0, 60>>,
      <<DateString(1), 0, -1>>, <<BadDateString, 24, 60>> }

\* POST /posts/{post_id}/schedule -> schedule_post
SchedulePost(post_id, date, hour, minute, commit_ok) ==
    LET out == ScheduleOutcome(posts, now, post_id, date, hour, minute, commit_ok) IN
    /\ posts' = out.store
    /\ last' = [op |-> "schedule", post_id |-> post_id,
                success |-> out.success, message |-> out.message]
    /\ UNCHANGED <<now, running, pc, sweepVars, wake_at>>

\* POST /posts/{post_id}/unschedule -> unschedule_post
UnschedulePost(post_id, commit_ok) ==
    LET out == UnscheduleOutcome(posts, post_id, commit_ok) IN
    /\ posts' = out.store
    /\ last' = [op |-> "unschedule", post_id |-> post_id,
                success |-> out.success, message |-> out.message]
    /\ UNCHANGED <<now, running, pc, sweepVars, wake_at>>

\* POST /posts/ -> create_post.  status and scheduled_for are optional
\* fields of PostCreate.
CreateTimes == {k * interval_seconds : k \in 0..(2 * MaxTicks)}

CreateOutcome(store, t, status, scheduled_for, commit_ok) ==
    IF IsSet(scheduled_for) THEN
        IF Val(scheduled_for) <= t THEN
            [success |-> FALSE, message |-> MsgPast, store |-> store]
        ELSE
            LET draft == Append(store, NewPost(DRAFT))
                out == ScheduleOutcome(draft, t, Len(draft),
                                       DateOf(Val(scheduled_for)),
                                       HourOf(Val(scheduled_for)),
                                       MinuteOf(Val(scheduled_for)), commit_ok)
            IN IF out.success
               THEN [success |-> TRUE, message |-> "created", store |-> out.store]
               ELSE [success |-> FALSE, message |-> out.message, store |-> store]
    ELSE
        [success |-> TRUE, message |-> "created",
         store |-> Append(store,
                     NewPost(IF IsSet(status) THEN Val(status) ELSE DRAFT))]

CreatePost(status, scheduled_for, commit_ok) ==
    LET out == CreateOutcome(posts, now, status, scheduled_for, commit_ok) IN
    /\ Len(posts) < MaxPosts
    /\ posts' = out.store
    /\ last' = [op |-> "create", post_id |-> Len(posts) + 1,
                success |-> out.success, message |-> out.message]
    /\ UNCHANGED <<now, running, pc, sweepVars, wake_at>>

\* PUT /posts/{post_id} -> update_post.  status and scheduled_for are
\* optional fields of PostUpdate; has_time says whether the request carries
\* scheduled_for at all (exclude_unset), and a carried scheduled_for may be
\* null.  A carried time goes through schedule_post, a carried null through
\* unschedule_post when the post is Scheduled; whatever is left of the
\* request, a carried status included, is set on the row and committed.
UpdateTimes == {None, Some(60), Some(120)}

UpdateOutcome(store, t, post_id, status, has_time, scheduled_for, commit_ok) ==
    LET Direct(s) ==
            IF ~IsSet(status) THEN
                [success |-> TRUE, message |-> "updated", store |-> s]
            ELSE IF commit_ok THEN
                [success |-> TRUE, message |-> "updated",
                 store |-> [s EXCEPT ![post_id].status = Val(status)]]
            ELSE
                [success |-> FALSE, message |-> "Internal Server Error", store |-> s]
    IN
    IF post_id \notin 1..Len(store) THEN
        [success |-> FALSE, message |-> MsgNotFound, store |-> store]
    ELSE IF has_time /\ IsSet(scheduled_for) THEN
        IF Val(scheduled_for) <= t THEN
            [success |-> FALSE, message |-> MsgPast, store |-> store]
        ELSE
            LET out == ScheduleOutcome(store, t, post_id,
                                       DateOf(Val(scheduled_for)),
                                       HourOf(Val(scheduled_for)),
                                       MinuteOf(Val(scheduled_for)), commit_ok)
            IN IF out.success
               THEN [success |-> TRUE, message |-> "updated", store |-> out.store]
               ELSE [success |-> FALSE, message |-> out.message, store |-> store]
    ELSE IF has_time /\ store[post_id].status = SCHEDULED THEN
        LET out == UnscheduleOutcome(store, post_id, commit_ok) IN
        IF out.success THEN Direct(out.store)
        ELSE [success |-> FALSE, message |-> out.message, store |-> store]
    ELSE
        Direct(store)

UpdatePost(post_id, status, has_time, scheduled_for, commit_ok) ==
    LET out == UpdateOutcome(posts, now, post_id, status, has_time,
                             scheduled_for, commit_ok) IN
    /\ has_time \/ scheduled_for = None
    /\ posts' = out.store
    /\ last' = [op |-> "update", post_id |-> post_id,
                success |-> out.success, message |-> out.message]
    /\ UNCHANGED <<now, running, pc, sweepVars, wake_at>>

\* get_scheduled_posts_count: three counting queries at one reading of the
\* clock; a query that raises gives the error dict.
get_scheduled_posts_count_NoDayLimit(store, t, db_ok) ==
    LET Scheduled(row) == row.status = SCHEDULED
        Overdue(row)   == Scheduled(row) /\ IsSet(row.scheduled_for)
                             /\ Val(row.scheduled_for) <= t
        Upcoming(row)  == Scheduled(row) /\ IsSet(row.scheduled_for)
                             /\ Val(row.scheduled_for) > t
    IN IF ~db_ok THEN [error |-> "query failed"]
       ELSE [total_scheduled |-> Cardinality({i \in 1..Len(store) : Scheduled(store[i])}),
             overdue         |-> Cardinality({i \in 1..Len(store) : Overdue(store[i])}),
             upcoming_24h    |-> Cardinality({i \in 1..Len(store) : Upcoming(store[i])})]

get_scheduled_posts_count(store, t, db_ok) ==
    LET tomorrow == t + 86400
        Scheduled(row) == row.status = SCHEDULED
        Overdue(row)   == Scheduled(row) /\ IsSet(row.scheduled_for)
                             /\ Val(row.scheduled_for) <= t
        Upcoming(row)  == Scheduled(row) /\ IsSet(row.scheduled_for)
                             /\ Val(row.scheduled_for) > t
                             /\ Val(row.scheduled_for) <= tomorrow
    IN IF ~db_ok THEN [error |-> "query failed"]
       ELSE [total_scheduled |-> Cardinality({i \in 1..Len(store) : Scheduled(store[i])}),
             overdue         |-> Cardinality({i \in 1..Len(store) : Overdue(store[i])}),
             upcoming_24h    |-> Cardinality({i \in 1..Len(store) : Upcoming(store[i])})]

\* GET /posts/admin/scheduler-stats -> get_scheduler_stats
GetSchedulerStats(db_ok) ==
    /\ last' = [op |-> "stats", ok |-> db_ok,
                stats |-> get_scheduled_posts_count(posts, now, db_ok)]
    /\ UNCHANGED <<posts, now, running, pc, sweepVars, wake_at>>

----------------------------------------------------------------------------
(* process_due_posts.  It is suspended only in the await of publish_post,  *)
(* so a cycle is: the query (up to the first await), then one step per     *)
(* return of the worker; the step of the last return also commits.         *)

BeginSweep_SkipsClaimed(r, restPc, db_ok) ==
    LET Free(p) == \A r2 \in Tasks \ {r} :
                      \A i \in 1..Len(due_posts[r2]) : due_posts[r2][i] # p
        due == SelectSeq(DueQuery(posts, now), Free) IN
    IF ~db_ok \/ due = <<>> THEN
        /\ pc' = [pc EXCEPT ![r] = restPc]
        /\ last' = [op |-> "sweep", runner |-> r, ret |-> 0,
                    committed |-> FALSE, raised |-> ~db_ok]
        /\ UNCHANGED sweepVars
    ELSE
        /\ pc' = [pc EXCEPT ![r] = "publishing"]
        /\ current_time' = [current_time EXCEPT ![r] = now]
        /\ due_posts' = [due_posts EXCEPT ![r] = due]
        /\ loaded' = [loaded EXCEPT ![r] = [i \in 1..Len(due) |-> posts[due[i]]]]
        /\ mem' = [mem EXCEPT ![r] = [i \in 1..Len(due) |-> posts[due[i]]]]
        /\ idx' = [idx EXCEPT ![r] = 1]
        /\ outcome' = [outcome EXCEPT ![r] = <<>>]
        /\ processed' = [processed EXCEPT ![r] = 0]
        /\ UNCHANGED last

\* lines 45-67: open the session, read the clock, run the due query.
\* db_ok says whether the query went through; when it raises, lines 93-96
\* roll back and return 0.
BeginSweep(r, restPc, db_ok) ==
    LET due == DueQuery(posts, now) IN
    IF ~db_ok \/ due = <<>> THEN
        /\ pc' = [pc EXCEPT ![r] = restPc]
        /\ last' = [op |-> "sweep", runner |-> r, ret |-> 0,
                    committed |-> FALSE, raised |-> ~db_ok]
        /\ UNCHANGED sweepVars
    ELSE
        /\ pc' = [pc EXCEPT ![r] = "publishing"]
        /\ current_time' = [current_time EXCEPT ![r] = now]
        /\ due_posts' = [due_posts EXCEPT ![r] = due]
        /\ loaded' = [loaded EXCEPT ![r] = [i \in 1..Len(due) |-> posts[due[i]]]]
        /\ mem' = [mem EXCEPT ![r] = [i \in 1..Len(due) |-> posts[due[i]]]]
        /\ idx' = [idx EXCEPT ![r] = 1]
        /\ outcome' = [outcome EXCEPT ![r] = <<>>]
        /\ processed' = [processed EXCEPT ![r] = 0]
        /\ UNCHANGED last

PublishReturn_NoRollback(r, res, commit_ok, restPc) ==
    LET i    == idx[r]
        p    == due_posts[r][i]
        m1   == [mem[r] EXCEPT ![i] = AfterPublish(@, p, res, now)]
        out1 == Append(outcome[r], res)
        n1   == processed[r] + Counted(res)
    IN
    /\ pc[r] = "publishing"
    /\ IF i < Len(due_posts[r]) THEN
          /\ mem' = [mem EXCEPT ![r] = m1]
          /\ idx' = [idx EXCEPT ![r] = i + 1]
          /\ outcome' = [outcome EXCEPT ![r] = out1]
          /\ processed' = [processed EXCEPT ![r] = n1]
          /\ UNCHANGED <<posts, pc, current_time, due_posts, loaded, last>>
       ELSE
          /\ posts' = Flush(posts, due_posts[r], loaded[r], m1)
          /\ last' = [op |-> "sweep", runner |-> r,
                      ret |-> IF commit_ok THEN n1 ELSE 0,
                      committed |-> commit_ok, raised |-> ~commit_ok]
          /\ pc' = [pc EXCEPT ![r] = restPc]
          /\ current_time' = [current_time EXCEPT ![r] = 0]
          /\ due_posts' = [due_posts EXCEPT ![r] = <<>>]
          /\ loaded' = [loaded EXCEPT ![r] = <<>>]
          /\ mem' = [mem EXCEPT ![r] = <<>>]
          /\ idx' = [idx EXCEPT ![r] = 0]
          /\ outcome' = [outcome EXCEPT ![r] = <<>>]
          /\ processed' = [processed EXCEPT ![r] = 0]

\* lines 67-99: the worker returns res for due_posts[idx]; the loop body
\* updates the session's object; after the last post, commit (or roll back).
PublishReturn(r, res, commit_ok, restPc) ==
    LET i    == idx[r]
        p    == due_posts[r][i]
        m1   == [mem[r] EXCEPT ![i] = AfterPublish(@, p, res, now)]
        out1 == Append(outcome[r], res)
        n1   == processed[r] + Counted(res)
    IN
    /\ pc[r] = "publishing"
    /\ IF i < Len(due_posts[r]) THEN
          /\ mem' = [mem EXCEPT ![r] = m1]
          /\ idx' = [idx EXCEPT ![r] = i + 1]
          /\ outcome' = [outcome EXCEPT ![r] = out1]
          /\ processed' = [processed EXCEPT ![r] = n1]
          /\ UNCHANGED <<posts, pc, current_time, due_posts, loaded, last>>
       ELSE
          /\ posts' = IF commit_ok
                         THEN Flush(posts, due_posts[r], loaded[r], m1)
                         ELSE posts
          /\ last' = [op |-> "sweep", runner |-> r,
                      ret |-> IF commit_ok THEN n1 ELSE 0,
                      committed |-> commit_ok, raised |-> ~commit_ok]
          /\ pc' = [pc EXCEPT ![r] = restPc]
          /\ current_time' = [current_time EXCEPT ![r] = 0]
          /\ due_posts' = [due_posts EXCEPT ![r] = <<>>]
          /\ loaded' = [loaded EXCEPT ![r] = <<>>]
          /\ mem' = [mem EXCEPT ![r] = <<>>]
          /\ idx' = [idx EXCEPT ![r] = 0]
          /\ outcome' = [outcome EXCEPT ![r] = <<>>]
          /\ processed' = [processed EXCEPT ![r] = 0]

WorkerResults == {"success", "failure", "error"}

\* manual_process_now: one cycle, on request
ManualProcessNow(db_ok) ==
    /\ pc["manual"] = "idle"
    /\ BeginSweep("manual", "idle", db_ok)
    /\ UNCHANGED <<posts, now, running, wake_at>>

ManualPublishReturn_ShiftsWake(res, commit_ok) ==
    /\ PublishReturn("manual", res, commit_ok, "idle")
    /\ wake_at' = [wake_at EXCEPT !["loop"] = IF @ = 0 THEN 0 ELSE now + interval_seconds]
    /\ UNCHANGED <<now, running>>

ManualPublishReturn(res, commit_ok) ==
    /\ PublishReturn("manual", res, commit_ok, "idle")
    /\ UNCHANGED <<now, running, wake_at>>

Sleep_NoWait(l) ==
    [wake_at EXCEPT ![l] = IF pc'[l] = "sleeping" THEN now ELSE 0]

\* the sleep that follows a cycle of loop task l
Sleep(l) ==
    [wake_at EXCEPT ![l] = IF pc'[l] = "sleeping" THEN now + interval_seconds ELSE 0]

\* run_scheduler, line 103 to its first await, in a new task l: set the
\* flag, enter the while loop, start a cycle; with nothing due, or when the
\* cycle raises, go to sleep.
RunScheduler(l, db_ok) ==
    /\ pc[l] = "off"
    /\ running' = TRUE
    /\ BeginSweep(l, "sleeping", db_ok)
    /\ wake_at' = Sleep(l)
    /\ UNCHANGED <<posts, now>>

LoopPublishReturn(l, res, commit_ok) ==
    /\ PublishReturn(l, res, commit_ok, "sleeping")
    /\ wake_at' = Sleep(l)
    /\ UNCHANGED <<now, running>>

LoopWake_IgnoresStop(l, db_ok) ==
    /\ pc[l] = "sleeping"
    /\ now >= wake_at[l]
    /\ BeginSweep(l, "sleeping", db_ok)
    /\ wake_at' = Sleep(l)
    /\ UNCHANGED <<posts, now, running>>

\* asyncio.sleep(interval_seconds) is over: test self.running, then either
\* leave the loop or start the next cycle.
LoopWake(l, db_ok) ==
    /\ pc[l] = "sleeping"
    /\ now >= wake_at[l]
    /\ IF running
         THEN /\ BeginSweep(l, "sleeping", db_ok)
              /\ wake_at' = Sleep(l)
         ELSE /\ pc' = [pc EXCEPT ![l] = "off"]
              /\ wake_at' = [wake_at EXCEPT ![l] = 0]
              /\ UNCHANGED <<sweepVars, last>>
    /\ UNCHANGED <<posts, now, running>>

\* asyncio.create_task(scheduler.run_scheduler(...)): the task exists, and
\* its coroutine has not run its first step yet.
CreateTask(l) ==
    /\ pc[l] = "off"
    /\ pc' = [pc EXCEPT ![l] = "created"]
    /\ last' = [op |-> "start"]
    /\ UNCHANGED <<posts, now, running, sweepVars, wake_at>>

\* the first step of a created task: run_scheduler from line 103 to its
\* first await, as in RunScheduler.
StartLoop(l, db_ok) ==
    /\ pc[l] = "created"
    /\ running' = TRUE
    /\ BeginSweep(l, "sleeping", db_ok)
    /\ wake_at' = Sleep(l)
    /\ UNCHANGED <<posts, now>>

\* stop_scheduler.  A call that comes between the creation of a task and
\* the task's first step is noted in last.
StopScheduler ==
    /\ running' = FALSE
    /\ last' = IF \E l \in LoopTasks : pc[l] = "created"
                 THEN [op |-> "stop"] ELSE last
    /\ UNCHANGED <<posts, now, pc, sweepVars, wake_at>>

\* the session of task r is closed without a commit (finally: db.close())
Dropped(f, r, empty) == [f EXCEPT ![r] = empty]

\* lifespan after the yield: stop_scheduler(), scheduler_task.cancel(),
\* await scheduler_task.  CancelledError is raised in the task at the await
\* where it is suspended (publish_post or asyncio.sleep); it is not an
\* Exception, so no except clause of the task catches it: only
\* finally: db.close() runs and the task ends.
Shutdown ==
    /\ pc["loop"] # "off"
    /\ running' = FALSE
    /\ pc' = [pc EXCEPT !["loop"] = "off"]
    /\ wake_at' = [wake_at EXCEPT !["loop"] = 0]
    /\ current_time' = Dropped(current_time, "loop", 0)
    /\ due_posts' = Dropped(due_posts, "loop", <<>>)
    /\ loaded' = Dropped(loaded, "loop", <<>>)
    /\ mem' = Dropped(mem, "loop", <<>>)
    /\ idx' = Dropped(idx, "loop", 0)
    /\ outcome' = Dropped(outcome, "loop", <<>>)
    /\ processed' = Dropped(processed, "loop", 0)
    /\ UNCHANGED <<posts, now, last>>

\* The process dies and is started again: every task and every session
\* that was open is gone; the store keeps what was committed.
Crash ==
    /\ \E r \in Tasks : pc[r] \notin {"off", "idle"}
    /\ running' = FALSE
    /\ pc' = [r \in Tasks |-> IF r \in LoopTasks THEN "off" ELSE "idle"]
    /\ current_time' = [r \in Tasks |-> 0]
    /\ due_posts' = [r \in Tasks |-> <<>>]
    /\ loaded' = [r \in Tasks |-> <<>>]
    /\ mem' = [r \in Tasks |-> <<>>]
    /\ idx' = [r \in Tasks |-> 0]
    /\ outcome' = [r \in Tasks |-> <<>>]
    /\ processed' = [r \in Tasks |-> 0]
    /\ wake_at' = [l \in LoopTasks |-> 0]
    /\ last' = [op |-> "none"]
    /\ UNCHANGED <<posts, now>>

----------------------------------------------------------------------------
(* Inputs.  The engine specification tries every kind of argument; the     *)
(* specification of the whole program, where the periodic loop and the     *)
(* manual trigger run side by side, tries fewer.                           *)

OptStatus == {None} \cup {Some(st) : st \in PostStatus}
OptTime   == {None} \cup {Some(t) : t \in CreateTimes}

FewArgs     == { <<DateString(0), 0, 1>>, <<DateString(0), 0, 2>> }
FewStatuses == {None, Some(PUBLISHED)}

\* db.commit() is reached only with arguments that pass every validation,
\* so a failing commit is tried with those only
CommitOutcomes(a) ==
    IF ComposeDatetime(a[1], a[2], a[3]) = None THEN {TRUE} ELSE BOOLEAN

Requests(args, statuses, times, oks) ==
    \/ \E post_id \in 1..MaxPosts, a \in args :
          \E ok \in oks \cap CommitOutcomes(a) :
             SchedulePost(post_id, a[1], a[2], a[3], ok)
    \/ \E post_id \in 1..MaxPosts, ok \in oks : UnschedulePost(post_id, ok)
    \/ \E st \in statuses, sf \in times, ok \in oks : CreatePost(st, sf, ok)

ManualSweeps(results, dbs) ==
    \/ \E db \in dbs : ManualProcessNow(db)
    \/ \E res \in results, ok \in BOOLEAN : ManualPublishReturn(res, ok)

LoopSweeps(tasks, results, dbs) ==
    \/ \E l \in tasks, db \in dbs : RunScheduler(l, db)
    \/ \E l \in tasks, res \in results, ok \in BOOLEAN : LoopPublishReturn(l, res, ok)
    \/ \E l \in tasks, db \in dbs : LoopWake(l, db)
    \/ StopScheduler

\* The scheduling engine and sweep cycles run one at a time
NextEngine ==
    \/ Tick
    \/ Requests(ScheduleArgs, OptStatus, OptTime, BOOLEAN)
    \/ ManualSweeps(WorkerResults, {TRUE})

SpecEngine == Init /\ [][NextEngine]_vars

\* The program while it serves: requests, the periodic loop of lifespan
\* and the manual trigger
Next ==
    \/ Tick
    \/ Requests(FewArgs, FewStatuses, {None}, {TRUE})
    \/ ManualSweeps({"success", "failure"}, {TRUE})
    \/ LoopSweeps({"loop"}, {"success", "failure"}, {TRUE})

Spec == Init /\ [][Next]_vars

\* The life of the loop: any sequence of run_scheduler and stop_scheduler
\* calls, cycles that raise, the shutdown of lifespan and the death of the
\* process, over posts created with a time.
LifecycleTimes == {Some(60), Some(120)}

NextLifecycle ==
    \/ Tick
    \/ \E sf \in LifecycleTimes : CreatePost(None, sf, TRUE)
    \/ LoopSweeps(LoopTasks, {"success", "failure"}, BOOLEAN)
    \/ Shutdown
    \/ Crash

SpecLifecycle == Init /\ [][NextLifecycle]_vars

\* Time passes, a sleep that is over ends, and the worker returns
Fairness ==
    /\ WF_vars(Tick)
    /\ \A l \in LoopTasks :
          /\ WF_vars(\E db \in BOOLEAN : LoopWake(l, db))
          /\ WF_vars(\E res \in {"success", "failure"}, ok \in BOOLEAN :
                        LoopPublishReturn(l, res, ok))

SpecLifecycleFair == SpecLifecycle /\ Fairness

\* The handlers of the posts router that write posts: create_post,
\* update_post and the manual trigger
UpdateStatuses == {None, Some(DRAFT), Some(PUBLISHED)}

NextRouter ==
    \/ Tick
    \/ CreatePost(None, None, TRUE)
    \/ \E post_id \in 1..MaxPosts, st \in UpdateStatuses, has_time \in BOOLEAN,
          sf \in UpdateTimes, ok \in BOOLEAN :
          UpdatePost(post_id, st, has_time, sf, ok)
    \/ ManualSweeps({"success", "failure"}, {TRUE})

SpecRouter == Init /\ [][NextRouter]_vars

\* The statistics request next to the scheduling engine and the manual
\* trigger
NextStats ==
    \/ Tick
    \/ Requests(ScheduleArgs, OptStatus, {None}, {TRUE})
    \/ ManualSweeps({"success"}, {TRUE})
    \/ \E db \in BOOLEAN : GetSchedulerStats(db)

SpecStats == Init /\ [][NextStats]_vars

\* The loop of lifespan with the creation of its task and the task's first
\* step as two steps, stop_scheduler and the shutdown of lifespan
NextStart ==
    \/ Tick
    \/ \E sf \in LifecycleTimes : CreatePost(None, sf, TRUE)
    \/ CreateTask("loop")
    \/ \E db \in BOOLEAN : StartLoop("loop", db)
    \/ \E res \in {"success", "failure"}, ok \in BOOLEAN :
          LoopPublishReturn("loop", res, ok)
    \/ \E db \in BOOLEAN : LoopWake("loop", db)
    \/ StopScheduler
    \/ Shutdown

SpecStart == Init /\ [][NextStart]_vars

----------------------------------------------------------------------------
(* Vocabulary of the properties *)

Range(seq) == {seq[i] : i \in 1..Len(seq)}

\* the step is schedule_post(post_id, a) / a return of r's worker
ScheduleStep(post_id, a, ok) == SchedulePost(post_id, a[1], a[2], a[3], ok)
\* what every schedule step shows: its result in last, the clock and the cycles untouched
ScheduleSeen == last'.op = "schedule" /\ UNCHANGED <<now, pc, idx>>
UnscheduleSeen == last'.op = "unschedule" /\ UNCHANGED <<now, pc, idx>>
UnscheduleStep == \E post_id \in 1..MaxPosts, ok \in BOOLEAN : UnschedulePost(post_id, ok)
ReturnStep(r, res, ok) ==
    IF r = "manual" THEN ManualPublishReturn(res, ok) ELSE LoopPublishReturn(r, res, ok)

\* r's cycle starts (selects its due posts) / ends in this step
Selects(r) == pc[r] # "publishing" /\ pc'[r] = "publishing"
Ends(r)    == pc[r] = "publishing" /\ pc'[r] # "publishing"

\* post p is in the store, Scheduled, for a time not later than t
DueAt(p, t) ==
    /\ p \in PostIds
    /\ posts[p].status = SCHEDULED
    /\ IsSet(posts[p].scheduled_for)
    /\ Val(posts[p].scheduled_for) <= t

\* the last reading of the clock, and the times at which a sleep that
\* began at a reading of the clock can end
Horizon == MaxTicks * 60
WakeTimes == {k * 60 + interval_seconds : k \in 0..MaxTicks}

\* a cycle of loop task l raises in this step: its query or its commit
RaisesStep(l) ==
    /\ last'.op = "sweep" /\ last'.raised /\ last'.runner = l
    /\ \/ RunScheduler(l, FALSE)
       \/ running /\ LoopWake(l, FALSE)
       \/ Ends(l) /\ \E res \in WorkerResults : LoopPublishReturn(l, res, FALSE)

\* the timestamp the arguments name, when they name one
WellFormed(a) == a[1].form = "YYYY-MM-DD" /\ a[2] \in 0..23 /\ a[3] \in 0..59
Timestamp(a)  == a[1].day * 86400 + a[2] * 3600 + a[3] * 60
WellFormedArgs == {a \in ScheduleArgs : WellFormed(a)}

----------------------------------------------------------------------------
(* C1: in every reachable state, every post has a scheduled_for if and     *)
(* only if its status is Scheduled.                                        *)
(* The code breaks it: a sweep that publishes a post leaves scheduled_for  *)
(* set, and create_post stores a Scheduled post without one.               *)
C1_ScheduledForIffScheduled ==
    \A p \in PostIds : IsSet(posts[p].scheduled_for) <=> posts[p].status = SCHEDULED

----------------------------------------------------------------------------
----------------------------------------------------------------------------
(* C3 as stated: when the worker returned success for due post P and the   *)
(* cycle's commit succeeds, P ends with status Published, an external post *)
(* id, and published_at equal to the current_time against which the cycle  *)
(* selected its due posts.                                                 *)
C3_PublishedAtIsCycleTime ==
    [][\A r \in Runners, res \in WorkerResults :
         (Ends(r) /\ ReturnStep(r, res, TRUE)) =>
            \A i \in 1..Len(due_posts[r]) :
               Append(outcome[r], res)[i] = "success" =>
                  /\ posts'[due_posts[r][i]].status = PUBLISHED
                  /\ IsSet(posts'[due_posts[r][i]].linkedin_post_id)
                  /\ posts'[due_posts[r][i]].published_at = Some(current_time[r])
      ]_vars

(* C3 as the code has it: P ends with status Published, an external post   *)
(* id, and published_at equal to a clock reading taken after the worker    *)
(* returned for P: not earlier than the cycle's current_time, not later    *)
(* than the commit, and for the post processed last the time of the commit.*)
C3_PublishedAtIsReturnTime ==
    [][\A r \in Runners, res \in WorkerResults :
         (Ends(r) /\ ReturnStep(r, res, TRUE)) =>
            \A i \in 1..Len(due_posts[r]) :
               Append(outcome[r], res)[i] = "success" =>
                  LET row == posts'[due_posts[r][i]] IN
                  /\ row.status = PUBLISHED
                  /\ IsSet(row.linkedin_post_id)
                  /\ Val(row.linkedin_post_id).post = due_posts[r][i]
                  /\ IsSet(row.published_at)
                  /\ current_time[r] <= Val(row.published_at)
                  /\ Val(row.published_at) <= now
                  /\ (i = Len(due_posts[r]) => Val(row.published_at) = now)
      ]_vars

\* a cycle has just committed a publication made after the clock moved on
\* from the time the post was due
C3_Witness ==
    /\ last.op = "sweep" /\ last.committed /\ last.ret >= 1
    /\ \E p \in PostIds :
          /\ posts[p].status = PUBLISHED
          /\ IsSet(posts[p].linkedin_post_id)
          /\ posts[p].published_at = Some(now)
          /\ IsSet(posts[p].scheduled_for)
          /\ Val(posts[p].scheduled_for) < now

----------------------------------------------------------------------------
(* C4: when the worker returned failure for due post P, and nothing else   *)
(* wrote P's row since the cycle read it, the cycle's commit leaves P with *)
(* status Scheduled and the same scheduled_for, with a non-empty           *)
(* error_message, and P is due; and a cycle that starts selects every post *)
(* that is due, and a cycle ends only after the worker has been called for *)
(* each post it selected.                                                  *)
C4_FailedPostIsRetried ==
    [][\A r \in Runners :
         /\ \A res \in WorkerResults :
              (Ends(r) /\ ReturnStep(r, res, TRUE)) =>
                 \A i \in 1..Len(due_posts[r]) :
                    LET p == due_posts[r][i] IN
                    (Append(outcome[r], res)[i] = "failure" /\ posts[p] = loaded[r][i]) =>
                       /\ posts'[p].status = SCHEDULED
                       /\ posts'[p].scheduled_for = posts[p].scheduled_for
                       /\ IsSet(posts'[p].error_message)
                       /\ Val(posts'[p].error_message) # ""
                       /\ IsSet(posts'[p].scheduled_for)
                       /\ Val(posts'[p].scheduled_for) <= now
         /\ Selects(r) =>
               \A p \in PostIds :
                  (/\ posts[p].status = SCHEDULED
                   /\ IsSet(posts[p].scheduled_for)
                   /\ Val(posts[p].scheduled_for) <= now) => p \in Range(due_posts'[r])
         /\ Ends(r) => idx[r] = Len(due_posts[r]) /\ Len(outcome[r]) = idx[r] - 1
         /\ (pc[r] = "publishing" /\ pc'[r] = "publishing" /\ idx'[r] # idx[r]) =>
               idx'[r] = idx[r] + 1 /\ Len(outcome'[r]) = idx[r]
      ]_vars

\* a post that carries the failure message of an earlier cycle has been
\* selected again and is with the worker
C4_Witness ==
    \E r \in Runners :
       /\ pc[r] = "publishing"
       /\ \E i \in 1..Len(due_posts[r]) :
             /\ loaded[r][i].error_message = Some(MsgPublishFail)
             /\ posts[due_posts[r][i]] = loaded[r][i]
             /\ idx[r] = i

----------------------------------------------------------------------------
(* C5: Published is terminal.  A cycle that starts never selects a post    *)
(* whose status is Published; a Schedule or Unschedule call on a Published *)
(* post changes none of its fields; and no step takes a post out of        *)
(* Published.                                                              *)
C5_PublishedIsTerminal ==
    [][/\ \A r \in Runners :
            Selects(r) =>
               \A i \in 1..Len(due_posts'[r]) :
                  posts[due_posts'[r][i]].status # PUBLISHED
       /\ \A p \in PostIds :
            posts[p].status = PUBLISHED =>
               /\ posts'[p].status = PUBLISHED
               /\ (last'.op \in {"schedule", "unschedule"} /\ posts' # posts) =>
                     posts'[p] = posts[p]
       /\ (/\ last'.op \in {"schedule", "unschedule"}
           /\ last'.post_id \in PostIds
           /\ posts[last'.post_id].status = PUBLISHED
           /\ (UnscheduleStep
                 \/ \E post_id \in 1..MaxPosts, a \in ScheduleArgs, ok \in BOOLEAN :
                       ScheduleStep(post_id, a, ok))) =>
               posts' = posts /\ ~last'.success
      ]_vars

\* Schedule has just been refused for a post that a cycle published
C5_Witness ==
    /\ last.op = "schedule" /\ ~last.success
    /\ last.post_id \in PostIds
    /\ posts[last.post_id].status = PUBLISHED
    /\ IsSet(posts[last.post_id].published_at)

----------------------------------------------------------------------------
(* C6: published_at of a post is written at most once: once it is set it   *)
(* never changes, also when a manual sweep overlaps a sweep of the loop.   *)
(* The code breaks it: two overlapping cycles both select the post and     *)
(* each commit writes its own published_at.                                *)
C6_PublishedAtWrittenOnce ==
    [][\A p \in PostIds :
         IsSet(posts[p].published_at) =>
            posts'[p].published_at = posts[p].published_at
      ]_vars

----------------------------------------------------------------------------
(* C7: a successful Schedule(post_id, date, hour, minute) was made on an   *)
(* existing post in status Draft or Scheduled and leaves it with status    *)
(* Scheduled, scheduled_for = the timestamp of date, hour and minute with  *)
(* seconds zero, error_message null and its other fields as they were; no  *)
(* other post is changed.                                                  *)
C7_ScheduleSuccess ==
    [][(ScheduleSeen /\ last'.success) =>
         LET post_id == last'.post_id IN
         \A a \in ScheduleArgs :
          ScheduleStep(post_id, a, TRUE) =>
            /\ post_id \in PostIds
            /\ posts[post_id].status \in {DRAFT, SCHEDULED}
            /\ WellFormed(a)
            /\ posts'[post_id] =
                  [posts[post_id] EXCEPT !.status = SCHEDULED,
                                         !.scheduled_for = Some(Timestamp(a)),
                                         !.error_message = None]
            /\ Len(posts') = Len(posts)
            /\ \A q \in PostIds : q # post_id => posts'[q] = posts[q]
      ]_vars

\* Schedule has just succeeded on a post that a running cycle had read with
\* an error_message, in a store that holds another post
C7_Witness ==
    /\ last.op = "schedule" /\ last.success
    /\ Len(posts) = 2
    /\ posts[last.post_id].error_message = None
    /\ \E i \in 1..Len(due_posts["manual"]) :
          /\ due_posts["manual"][i] = last.post_id
          /\ IsSet(loaded["manual"][i].error_message)
          /\ loaded["manual"][i].scheduled_for # posts[last.post_id].scheduled_for

----------------------------------------------------------------------------
(* C8: a Schedule call that returns failure, for whatever reason, leaves   *)
(* the post store exactly as it was.                                       *)
C8_ScheduleFailureNoWrite ==
    [][(ScheduleSeen /\ ~last'.success /\ posts' # posts) =>
         ~ \E post_id \in 1..MaxPosts, a \in ScheduleArgs, ok \in BOOLEAN :
              ScheduleStep(post_id, a, ok)
      ]_vars

\* Schedule has just been refused as in the past on a post that could be
\* scheduled
C8_Witness ==
    /\ last.op = "schedule" /\ ~last.success /\ last.message = MsgPast
    /\ last.post_id \in PostIds
    /\ posts[last.post_id].status = SCHEDULED
    /\ IsSet(posts[last.post_id].scheduled_for)

----------------------------------------------------------------------------
(* C9: Schedule succeeds only if the timestamp of its arguments is         *)
(* strictly later than the clock at the call, so that right after a        *)
(* success scheduled_for is in the future; with well-formed arguments on a *)
(* Draft or Scheduled post, a timestamp equal to or earlier than the clock *)
(* gets the 'in the past' failure.                                         *)
C9_OnlyFutureTimes ==
    [][ScheduleSeen =>
         LET post_id == last'.post_id IN
         /\ last'.success =>
               \A a \in ScheduleArgs :
                  \/ /\ WellFormed(a) /\ Timestamp(a) > now
                     /\ IsSet(posts'[post_id].scheduled_for)
                     /\ Val(posts'[post_id].scheduled_for) > now
                  \/ ~ScheduleStep(post_id, a, TRUE)
         /\ (~last'.success /\ last'.message = MsgPast)
               \/ ~(post_id \in PostIds /\ posts[post_id].status \in {DRAFT, SCHEDULED})
               \/ \A a \in WellFormedArgs :
                     Timestamp(a) <= now =>
                        \A ok \in BOOLEAN : ~ScheduleStep(post_id, a, ok)
      ]_vars

\* Schedule has just been refused as in the past at a clock reading that a
\* valid argument names exactly
C9_Witness ==
    /\ last.op = "schedule" /\ ~last.success /\ last.message = MsgPast
    /\ last.post_id \in PostIds
    /\ \E a \in ScheduleArgs : WellFormed(a) /\ Timestamp(a) = now
    /\ posts[last.post_id].status = DRAFT

----------------------------------------------------------------------------
(* C10: Schedule on a post whose status is Published or Failed fails with  *)
(* the message that cites that status, whatever the date, hour and minute, *)
(* and changes nothing.                                                    *)
C10_NoScheduleFromPublishedOrFailed ==
    [][(/\ ScheduleSeen
        /\ last'.post_id \in PostIds
        /\ posts[last'.post_id].status \in {PUBLISHED, FAILED}) =>
         LET post_id == last'.post_id IN
         \A a \in ScheduleArgs, ok \in BOOLEAN :
            ScheduleStep(post_id, a, ok) =>
               /\ ~last'.success
               /\ posts[post_id].status = PUBLISHED =>
                     last'.message = "Cannot schedule post with status: published"
               /\ posts[post_id].status = FAILED =>
                     last'.message = "Cannot schedule post with status: failed"
               /\ posts' = posts
      ]_vars

\* Schedule has just been refused, citing the status, for a Failed post
\* while the store also holds a post that a cycle published
C10_Witness ==
    /\ last.op = "schedule" /\ ~last.success
    /\ last.message = "Cannot schedule post with status: failed"
    /\ posts[last.post_id].status = FAILED
    /\ \E q \in PostIds :
          posts[q].status = PUBLISHED /\ IsSet(posts[q].linkedin_post_id)

----------------------------------------------------------------------------
(* C11 as stated: Unschedule on a post whose status is not Scheduled fails *)
(* and changes nothing; Unschedule on a Scheduled post always succeeds and *)
(* leaves it with status Draft and scheduled_for null.                     *)
C11_UnscheduleAlwaysSucceeds ==
    [][UnscheduleSeen =>
         LET post_id == last'.post_id IN
         \A ok \in BOOLEAN :
            (post_id \in PostIds /\ UnschedulePost(post_id, ok)) =>
               IF posts[post_id].status # SCHEDULED
               THEN ~last'.success /\ posts' = posts
               ELSE /\ last'.success
                    /\ posts'[post_id].status = DRAFT
                    /\ posts'[post_id].scheduled_for = None
      ]_vars

(* C11 as the code has it: Unschedule on a post whose status is not        *)
(* Scheduled fails and changes nothing; Unschedule on a Scheduled post     *)
(* succeeds when the store commits, and then leaves it with status Draft,  *)
(* scheduled_for null, its other fields and every other post as they were; *)
(* when the commit fails the call fails with 'Error unscheduling post' and *)
(* changes nothing.                                                        *)
C11_UnscheduleUnlessCommitFails ==
    [][UnscheduleSeen =>
         LET post_id == last'.post_id IN
         \A ok \in BOOLEAN :
            (post_id \in PostIds /\ UnschedulePost(post_id, ok)) =>
               IF posts[post_id].status # SCHEDULED
               THEN /\ ~last'.success /\ last'.message = MsgNotScheduled
                    /\ posts' = posts
               ELSE IF ok
               THEN /\ last'.success
                    /\ posts'[post_id] =
                          [posts[post_id] EXCEPT !.status = DRAFT,
                                                 !.scheduled_for = None]
                    /\ Len(posts') = Len(posts)
                    /\ \A q \in PostIds : q # post_id => posts'[q] = posts[q]
               ELSE /\ ~last'.success /\ last'.message = MsgUnschedErr
                    /\ posts' = posts
      ]_vars

\* Unschedule has just succeeded on a post that carried the failure message
\* of a cycle, while another post stays Scheduled
C11_Witness ==
    /\ last.op = "unschedule" /\ last.success
    /\ posts[last.post_id].status = DRAFT
    /\ posts[last.post_id].scheduled_for = None
    /\ posts[last.post_id].error_message = Some(MsgPublishFail)
    /\ \E q \in PostIds : posts[q].status = SCHEDULED

----------------------------------------------------------------------------
(* C12: after any sequence of run_scheduler and stop_scheduler calls at    *)
(* most one loop is active: a call of run_scheduler made while a loop is   *)
(* running, or while a stopped loop has not exited yet, does not give a    *)
(* second loop.                                                            *)
(* The code breaks it: run_scheduler sets the flag and enters its loop     *)
(* without looking at the flag, so every call runs a loop of its own.      *)
C12_AtMostOneLoop ==
    Cardinality({l \in LoopTasks : pc[l] # "off"}) <= 1

----------------------------------------------------------------------------
(* C13: once stop_scheduler has been called, and for as long as            *)
(* run_scheduler is not called again, a running loop finishes the sweep    *)
(* or the sleep it is in, starts no further cycle, and exits: a loop in a  *)
(* cycle comes to the end of it, a loop asleep does nothing until it       *)
(* leaves the loop, and, its sleep ending while the clock runs, it does    *)
(* leave.                                                                  *)
C13_StoppedLoopExits ==
    /\ [][\A l \in LoopTasks :
            (~running /\ pc[l] = "sleeping") =>
               \/ pc'[l] = "sleeping" /\ wake_at'[l] = wake_at[l]
               \/ pc'[l] = "off"
         ]_vars
    /\ \A l \in LoopTasks :
          (~running /\ pc[l] = "publishing") ~> (pc[l] # "publishing" \/ running)
    /\ \A l \in LoopTasks :
          (~running /\ pc[l] = "sleeping" /\ wake_at[l] <= Horizon)
             ~> (pc[l] = "off" \/ running)

\* the loop was stopped during a cycle, has committed the cycle, and its
\* sleep is over
C13_Witness ==
    /\ ~running /\ pc["loop"] = "sleeping" /\ wake_at["loop"] <= now
    /\ pc["loop2"] = "off"
    /\ last.op = "sweep" /\ last.runner = "loop" /\ last.committed

----------------------------------------------------------------------------
(* C14: a cycle of the loop that raises (its query or its commit fails)    *)
(* does not end the loop: the loop sleeps interval_seconds from then;      *)
(* a loop leaves only with the running flag cleared by stop_scheduler      *)
(* (or with the process); and a loop asleep that has not been stopped      *)
(* does nothing before its sleep is over and then starts a cycle, which    *)
(* it does whenever the sleep ends while the clock runs.                   *)
C14_ErrorsDoNotEndLoop ==
    /\ [][\A l \in LoopTasks :
            /\ RaisesStep(l) =>
                  pc'[l] = "sleeping" /\ wake_at'[l] = now + interval_seconds
            /\ (pc[l] # "off" /\ pc'[l] = "off") => (~running' \/ Crash)
            /\ (/\ pc[l] = "sleeping" /\ running
                /\ (pc'[l] # "sleeping" \/ wake_at'[l] # wake_at[l])
                /\ ~Shutdown /\ ~Crash) =>
                  /\ now >= wake_at[l]
                  /\ \/ pc'[l] = "publishing" /\ current_time'[l] = now
                     \/ /\ pc'[l] = "sleeping"
                        /\ last'.op = "sweep" /\ last'.runner = l
                        /\ wake_at'[l] = now + interval_seconds
         ]_vars
    /\ \A l \in LoopTasks, w \in WakeTimes :
          (running /\ pc[l] = "sleeping" /\ wake_at[l] = w /\ w <= Horizon)
             ~> (~running \/ pc[l] # "sleeping" \/ wake_at[l] # w)

\* the last cycle of the loop raised with a post due, and the loop, not
\* stopped, is asleep for the full interval
C14_Witness ==
    /\ last.op = "sweep" /\ last.raised /\ last.runner = "loop"
    /\ running /\ pc["loop"] = "sleeping"
    /\ wake_at["loop"] = now + interval_seconds
    /\ DueQuery(posts, now) # <<>>

----------------------------------------------------------------------------
(* C15: shutdown is cooperative: a cycle of the loop that is in flight     *)
(* when the shutdown of lifespan runs goes on to its end, its commit       *)
(* included, before the shutdown returns; short of the death of the        *)
(* process, a cycle in flight ends only by its own last step.              *)
(* The code breaks it: the shutdown cancels the task, which ends the cycle *)
(* at the await of the worker, without a commit.                           *)
C15_ShutdownAwaitsCycle ==
    [][\A l \in LoopTasks :
         (pc[l] = "publishing" /\ pc'[l] # "publishing" /\ ~Crash) =>
            \E res \in WorkerResults, ok \in BOOLEAN : LoopPublishReturn(l, res, ok)
      ]_vars

----------------------------------------------------------------------------
(* C16: when the commit at the end of a cycle fails, the cycle leaves      *)
(* every post with the field values it had (no post of the cycle becomes   *)
(* Published or gets the cycle's error_message) and returns 0; every post  *)
(* the cycle had selected, unless a request wrote it meanwhile, is still   *)
(* due, and a cycle that starts selects exactly the posts that are due.    *)
C16_FailedCommitRollsBack ==
    [][\A r \in Runners :
         /\ (/\ Ends(r) /\ last'.op = "sweep" /\ last'.raised
             /\ \E res \in WorkerResults : ReturnStep(r, res, FALSE)) =>
               /\ posts' = posts
               /\ last'.ret = 0 /\ ~last'.committed
               /\ \A i \in 1..Len(due_posts[r]) :
                     posts[due_posts[r][i]] = loaded[r][i] =>
                        due_posts[r][i] \in Range(DueQuery(posts', now))
         /\ Selects(r) => due_posts'[r] = DueQuery(posts, now)
      ]_vars

\* the commit of the last cycle failed, and the next cycle has selected
\* the post again, which is as it was: Scheduled, not published, no message
C16_Witness ==
    /\ last.op = "sweep" /\ last.raised /\ last.runner = "manual"
    /\ pc["manual"] = "publishing"
    /\ \E i \in 1..Len(due_posts["manual"]) :
          LET row == posts[due_posts["manual"][i]] IN
          /\ row = loaded["manual"][i]
          /\ row.status = SCHEDULED
          /\ row.published_at = None /\ row.error_message = None

----------------------------------------------------------------------------
(* C17: a cycle is all-or-nothing in the store.  Whatever the step, the    *)
(* cancellation of the loop and the death of the process in the middle of  *)
(* a cycle included, the store changes only by a request or by the last    *)
(* step of a cycle, and that step writes every column the cycle has        *)
(* changed of every post it has selected, and nothing else.                *)
C17_CycleAllOrNothing ==
    [][(posts' # posts /\ last'.op # "create") =>
         \E l \in LoopTasks, res \in {"success", "failure"} :
            /\ Ends(l) /\ LoopPublishReturn(l, res, TRUE)
            /\ Len(posts') = Len(posts)
            /\ LET due == due_posts[l]
                   n   == Len(due)
                   fin == [mem[l] EXCEPT ![n] = AfterPublish(@, due[n], res, now)]
               IN /\ \A i \in 1..n, c \in Columns :
                        posts'[due[i]][c] =
                           IF fin[i][c] # loaded[l][i][c] THEN fin[i][c]
                                                          ELSE posts[due[i]][c]
                  /\ \A p \in PostIds : p \notin Range(due) => posts'[p] = posts[p]
      ]_vars

\* in the middle of a cycle over two posts: the first is Published in the
\* session and still Scheduled in the store
C17_Witness ==
    /\ pc["loop"] = "publishing" /\ Len(due_posts["loop"]) = 2 /\ idx["loop"] = 2
    /\ mem["loop"][1].status = PUBLISHED
    /\ posts[due_posts["loop"][1]].status = SCHEDULED

----------------------------------------------------------------------------
(* C18: when the processing of one due post raises, the cycle goes on to   *)
(* the next due post, and its commit records the error's message in the    *)
(* error_message of that post (status left Scheduled), provided no request *)
(* wrote the post meanwhile, and commits the outcomes of the other posts:  *)
(* Published for a success, the failure message for a failure.             *)
C18_PerPostErrorContained ==
    [][\A r \in Runners :
         pc[r] = "publishing" =>
            /\ (idx[r] < Len(due_posts[r]) /\ idx'[r] # idx[r]
                   /\ \E ok \in BOOLEAN : ReturnStep(r, "error", ok)) =>
                  /\ pc'[r] = "publishing"
                  /\ idx'[r] = idx[r] + 1
                  /\ outcome'[r] = Append(outcome[r], "error")
            /\ \A res \in WorkerResults :
                  (/\ Ends(r) /\ last'.op = "sweep" /\ last'.committed
                   /\ "error" \in Range(Append(outcome[r], res))
                   /\ ReturnStep(r, res, TRUE)) =>
                     \A i \in 1..Len(due_posts[r]) :
                        LET p   == due_posts[r][i]
                            o   == Append(outcome[r], res)[i]
                            own == posts[p] = loaded[r][i]
                        IN /\ (o = "error" /\ own) =>
                                 /\ posts'[p].error_message = Some("publisher error")
                                 /\ posts'[p].status = SCHEDULED
                           /\ o = "success" =>
                                 /\ posts'[p].status = PUBLISHED
                                 /\ IsSet(posts'[p].published_at)
                           /\ (o = "failure" /\ own) =>
                                 posts'[p].error_message = Some(MsgPublishFail)
      ]_vars

\* a cycle over two posts has just committed: the first raised and carries
\* the error's message, the second, processed after it, is Published
C18_Witness ==
    /\ last.op = "sweep" /\ last.committed /\ last.ret = 1
    /\ Len(posts) = 2
    /\ posts[1].status = SCHEDULED
    /\ posts[1].error_message = Some("publisher error")
    /\ posts[2].status = PUBLISHED /\ posts[2].published_at = Some(now)
    /\ IsSet(posts[1].scheduled_for) /\ Val(posts[1].scheduled_for) <= now

----------------------------------------------------------------------------
(* C19: the value returned by a cycle whose commit succeeds is the number  *)
(* of due posts the cycle attempted: posts whose publication succeeded,    *)
(* failed or raised count alike.                                           *)
(* The code breaks it: processed is incremented at the end of the try      *)
(* block, which a post that raises does not reach.                         *)
C19_ReturnCountsAttempts ==
    [][\A r \in Runners :
         (/\ Ends(r) /\ last'.op = "sweep" /\ last'.committed
          /\ \E res \in WorkerResults : ReturnStep(r, res, TRUE)) =>
            last'.ret = Len(due_posts[r])
      ]_vars

----------------------------------------------------------------------------
(* C20: a cycle run when no post is due (none with status Scheduled and    *)
(* scheduled_for <= now) changes no post, calls no worker and returns 0;   *)
(* it leaves everything but the record of its own return as it was, so     *)
(* running it again, any number of times, changes nothing.                 *)
C20_NoDueIsNoOp ==
    [][(\A p \in PostIds :
           ~(/\ posts[p].status = SCHEDULED
             /\ IsSet(posts[p].scheduled_for)
             /\ Val(posts[p].scheduled_for) <= now)) =>
         /\ ManualProcessNow(TRUE) =>
               /\ UNCHANGED <<posts, now, running, pc, sweepVars, wake_at>>
               /\ last' = [op |-> "sweep", runner |-> "manual", ret |-> 0,
                           committed |-> FALSE, raised |-> FALSE]
         /\ \A l \in LoopTasks :
               (RunScheduler(l, TRUE) \/ (running /\ LoopWake(l, TRUE))) =>
                  /\ UNCHANGED <<posts, now, sweepVars>>
                  /\ pc'[l] = "sleeping"
                  /\ \A r \in Tasks : r # l => pc'[r] = pc[r]
                  /\ last' = [op |-> "sweep", runner |-> l, ret |-> 0,
                              committed |-> FALSE, raised |-> FALSE]
      ]_vars

\* a cycle has just returned 0 with a post Scheduled for a later time in
\* the store, which is as the request left it
C20_Witness ==
    /\ last.op = "sweep" /\ last.ret = 0 /\ ~last.committed /\ ~last.raised
    /\ \A r \in Tasks : pc[r] # "publishing"
    /\ DueQuery(posts, now) = <<>>
    /\ \E p \in PostIds :
          /\ posts[p].status = SCHEDULED
          /\ IsSet(posts[p].scheduled_for) /\ Val(posts[p].scheduled_for) > now
          /\ posts[p].published_at = None /\ posts[p].error_message = None

----------------------------------------------------------------------------
(* C21: manual_process_now runs one cycle and returns its count, with the  *)
(* loop stopped or running: from idle it starts one cycle, which ends back *)
(* in idle with the number of posts for which the worker returned (0 when  *)
(* nothing is due or the commit fails); no step of it changes the running  *)
(* flag, where the loop is, the loop's own cycle, or the end of the loop's *)
(* sleep.                                                                  *)
C21_ManualTriggerFrame ==
    [][(\/ pc'["manual"] # pc["manual"]
        \/ idx'["manual"] # idx["manual"]
        \/ ManualProcessNow(TRUE)) =>
         /\ running' = running /\ wake_at' = wake_at /\ now' = now
         /\ \A l \in LoopTasks :
               /\ pc'[l] = pc[l]
               /\ due_posts'[l] = due_posts[l] /\ mem'[l] = mem[l]
               /\ loaded'[l] = loaded[l] /\ idx'[l] = idx[l]
               /\ outcome'[l] = outcome[l] /\ processed'[l] = processed[l]
         /\ pc["manual"] = "idle" =>
               \/ pc'["manual"] = "publishing" /\ idx'["manual"] = 1
               \/ /\ pc'["manual"] = "idle" /\ DueQuery(posts, now) = <<>>
                  /\ last'.op = "sweep" /\ last'.runner = "manual" /\ last'.ret = 0
         /\ Ends("manual") =>
               /\ pc'["manual"] = "idle"
               /\ idx["manual"] = Len(due_posts["manual"])
               /\ last'.op = "sweep" /\ last'.runner = "manual"
               /\ \E res \in WorkerResults :
                     LET all == Append(outcome["manual"], res) IN
                     last'.ret \in
                        {0, Cardinality({i \in 1..Len(all) : all[i] \in {"success", "failure"}})}
               /\ last'.committed =>
                     \E res \in WorkerResults :
                        LET all == Append(outcome["manual"], res) IN
                        /\ ManualPublishReturn(res, TRUE)
                        /\ last'.ret =
                              Cardinality({i \in 1..Len(all) : all[i] \in {"success", "failure"}})
      ]_vars

\* a manual cycle has just committed a publication while the loop, not
\* stopped, is asleep until a later time
C21_Witness ==
    /\ last.op = "sweep" /\ last.runner = "manual" /\ last.committed /\ last.ret >= 1
    /\ running /\ pc["loop"] = "sleeping" /\ wake_at["loop"] > now
    /\ pc["manual"] = "idle"

----------------------------------------------------------------------------
(* C22: rescheduling.  Schedule on a post that is already Scheduled is     *)
(* validated as a first Schedule is: it succeeds exactly when the          *)
(* arguments are well formed, name a time later than the clock, and the    *)
(* store commits; on success it overwrites scheduled_for with the new      *)
(* timestamp and the status stays Scheduled; on failure scheduled_for is   *)
(* as it was; and after a successful Schedule, the same call again, then   *)
(* or at any later clock reading, leaves the store as it is.               *)
C22_Reschedule ==
    [][(/\ ScheduleSeen
        /\ last'.post_id \in PostIds
        /\ posts[last'.post_id].status = SCHEDULED) =>
         LET post_id == last'.post_id IN
         IF last'.success
         THEN \A a \in ScheduleArgs :
                 ScheduleStep(post_id, a, TRUE) =>
                    /\ WellFormed(a) /\ Timestamp(a) > now
                    /\ posts'[post_id].status = SCHEDULED
                    /\ posts'[post_id].scheduled_for = Some(Timestamp(a))
                    /\ \A t \in {k * 60 : k \in 0..MaxTicks}, ok2 \in BOOLEAN :
                          t >= now =>
                             ScheduleOutcome(posts', t, post_id,
                                             a[1], a[2], a[3], ok2).store = posts'
         ELSE /\ posts'[post_id].scheduled_for = posts[post_id].scheduled_for
              /\ posts'[post_id].status = SCHEDULED
              /\ \A a \in WellFormedArgs :
                    Timestamp(a) > now => ~ScheduleStep(post_id, a, TRUE)
      ]_vars

\* Schedule has just succeeded on a post that was Scheduled for an earlier
\* time, the time at which a cycle in flight had read it
C22_Witness ==
    /\ last.op = "schedule" /\ last.success
    /\ posts[last.post_id].status = SCHEDULED
    /\ \E i \in 1..Len(due_posts["manual"]) :
          /\ due_posts["manual"][i] = last.post_id
          /\ loaded["manual"][i].status = SCHEDULED
          /\ Val(loaded["manual"][i].scheduled_for) < Val(posts[last.post_id].scheduled_for)

----------------------------------------------------------------------------
(* C23: retry until success.  Every cycle that starts selects every post   *)
(* that is due, whatever its error_message and however often it has        *)
(* failed, and a post whose publication failed is, after the commit, still *)
(* due; a loop that is asleep and not stopped, its sleep ending while the  *)
(* clock runs, comes to pass each post that is due to the worker, unless   *)
(* the query of its cycle raises; and a                                    *)
(* post for which the worker has returned success in a cycle becomes       *)
(* Published at the end of that cycle, unless the commit fails or the      *)
(* loop is cancelled.                                                      *)
C23_RetryUntilSuccess ==
    /\ [][\A l \in LoopTasks :
            /\ Selects(l) =>
                  \A p \in PostIds : DueAt(p, now) => p \in Range(due_posts'[l])
            /\ \A res \in {"success", "failure"} :
                  (Ends(l) /\ last'.op = "sweep" /\ last'.committed
                     /\ LoopPublishReturn(l, res, TRUE)) =>
                     \A i \in 1..Len(due_posts[l]) :
                        LET p == due_posts[l][i] IN
                        (Append(outcome[l], res)[i] = "failure"
                           /\ posts[p] = loaded[l][i]) =>
                              /\ posts'[p].status = SCHEDULED
                              /\ posts'[p].scheduled_for = posts[p].scheduled_for
                              /\ Val(posts'[p].scheduled_for) <= now
         ]_vars
    /\ \A l \in LoopTasks, p \in 1..MaxPosts :
          (/\ running /\ pc[l] = "sleeping" /\ wake_at[l] <= Horizon
           /\ DueAt(p, wake_at[l]))
             ~> \/ pc[l] = "publishing" /\ p \in Range(due_posts[l])
                \/ ~running \/ pc[l] = "off"
                \/ ~DueAt(p, now)
                \/ last.op = "sweep" /\ last.raised /\ last.runner = l
    /\ \A l \in LoopTasks, p \in 1..MaxPosts :
          (/\ pc[l] = "publishing"
           /\ \E i \in 1..Len(due_posts[l]) :
                 due_posts[l][i] = p /\ mem[l][i].status = PUBLISHED)
             ~> \/ p \in PostIds /\ posts[p].status = PUBLISHED
                \/ pc[l] = "off"
                \/ last.op = "sweep" /\ last.raised /\ last.runner = l

\* a post that carries the failure message of an earlier cycle is with the
\* worker again in a cycle of the loop, which has not been stopped
C23_Witness ==
    /\ running /\ pc["loop"] = "publishing" /\ pc["loop2"] = "off"
    /\ last.op = "sweep" /\ last.runner = "loop" /\ last.committed /\ last.ret >= 1
    /\ \E i \in 1..Len(due_posts["loop"]) :
          /\ idx["loop"] = i
          /\ loaded["loop"][i].error_message = Some(MsgPublishFail)
          /\ loaded["loop"][i].status = SCHEDULED


----------------------------------------------------------------------------
(* C24: once a post exists, its status, scheduled_for, published_at,       *)
(* linkedin_post_id and error_message are changed only by schedule_post,   *)
(* by unschedule_post or by a sweep cycle; a request to update_post        *)
(* changes them only through those two functions and never writes status   *)
(* or scheduled_for itself.                                                *)
(* The code breaks it: update_post sets a status carried by the request    *)
(* on the row (setattr) whenever the request carries no time.              *)
C24_LifecycleWriters ==
    [][posts' # posts /\ Len(posts') = Len(posts) =>
          \/ last'.op \in {"schedule", "unschedule", "sweep"}
          \/ /\ last'.op = "update"
             /\ \/ posts' = UnscheduleOutcome(posts, last'.post_id, TRUE).store
                \/ \E sf \in UpdateTimes \ {None} :
                      posts' = ScheduleOutcome(posts, now, last'.post_id,
                                               DateOf(Val(sf)), HourOf(Val(sf)),
                                               MinuteOf(Val(sf)), TRUE).store
      ]_vars

----------------------------------------------------------------------------
(* C25: in every reachable state, a post with a linkedin_post_id has       *)
(* status Published and a published_at.                                    *)
(* It holds as long as only schedule_post, unschedule_post and sweep       *)
(* cycles write posts.  The code breaks it through update_post, which      *)
(* sets a carried status on a Published post and leaves linkedin_post_id.  *)
C25_ExternalIdOnlyIfPublished ==
    \A p \in PostIds :
        IsSet(posts[p].linkedin_post_id) =>
            /\ posts[p].status = PUBLISHED
            /\ IsSet(posts[p].published_at)

----------------------------------------------------------------------------
(* C26: schedule_post on a Draft or Scheduled post, with a date in the     *)
(* YYYY-MM-DD form and an hour outside 0..23 or a minute outside 0..59,    *)
(* fails with 'Hour must be between 0-23' or 'Minute must be between       *)
(* 0-59', and changes no post.                                             *)
(* The code breaks it: replace(hour=, minute=) raises ValueError inside    *)
(* the try of the date parsing, so the call fails with 'Invalid date       *)
(* format. Use YYYY-MM-DD' and the two range checks are never reached.     *)
C26_RangeErrorMessage ==
    [][(/\ ScheduleSeen
        /\ last'.post_id \in PostIds
        /\ posts[last'.post_id].status \in {DRAFT, SCHEDULED}) =>
          \A a \in ScheduleArgs :
             (/\ a[1].form = "YYYY-MM-DD"
              /\ ~(a[2] \in 0..23 /\ a[3] \in 0..59)
              /\ ScheduleStep(last'.post_id, a, TRUE)) =>
                 /\ ~last'.success
                 /\ last'.message \in {MsgHour, MsgMinute}
                 /\ posts' = posts
      ]_vars

----------------------------------------------------------------------------
(* C27: get_scheduled_posts_count changes nothing, and when its queries    *)
(* go through it returns, for the store and the clock it reads:            *)
(* total_scheduled = the number of Scheduled posts; overdue = the number   *)
(* of Scheduled posts with scheduled_for <= now, which are exactly the     *)
(* posts a sweep starting now selects; upcoming_24h = the number of        *)
(* Scheduled posts with now < scheduled_for <= now + 24 h; so              *)
(* overdue + upcoming_24h <= total_scheduled.                              *)
StatsSeen == last'.op = "stats" /\ UNCHANGED <<now, pc, idx>>

C27_DueStats ==
    [][StatsSeen =>
          /\ UNCHANGED <<posts, running, sweepVars, wake_at>>
          /\ last'.ok =>
                LET st == last'.stats
                    Sched == {p \in PostIds : posts[p].status = SCHEDULED}
                    Over  == {p \in PostIds : DueAt(p, now)}
                    Upc   == {p \in Sched : /\ IsSet(posts[p].scheduled_for)
                                            /\ now < Val(posts[p].scheduled_for)
                                            /\ Val(posts[p].scheduled_for) <= now + 24 * 3600}
                IN /\ st.total_scheduled = Cardinality(Sched)
                   /\ st.overdue = Cardinality(Over)
                   /\ Range(DueQuery(posts, now)) = Over
                   /\ Len(DueQuery(posts, now)) = st.overdue
                   /\ st.upcoming_24h = Cardinality(Upc)
                   /\ st.overdue + st.upcoming_24h <= st.total_scheduled
      ]_vars

\* the statistics of a store with an overdue post and a post scheduled
\* for more than a day ahead have been read
C27_Witness ==
    /\ last.op = "stats" /\ last.ok
    /\ last.stats = [total_scheduled |-> 2, overdue |-> 1, upcoming_24h |-> 0]
    /\ Len(posts) = 2
    /\ \E p \in PostIds : DueAt(p, now)
    /\ \E p \in PostIds : /\ posts[p].status = SCHEDULED
                           /\ IsSet(posts[p].scheduled_for)
                           /\ Val(posts[p].scheduled_for) > now + 24 * 3600

----------------------------------------------------------------------------
(* C28: nothing keeps two overlapping cycles from taking the same post.    *)
(* A cycle that starts while another cycle is suspended in publish_post    *)
(* selects every due post the other one holds, and loads it as Scheduled;  *)
(* the other cycle keeps it; and a cycle ends only at the return of the    *)
(* worker for its last selected post, having passed each selected post to  *)
(* the worker in turn.  So the worker is called again for a post that      *)
(* another cycle has published in the meantime.                            *)
C28_OverlapSelectsSame ==
    /\ [][\A r \in Runners :
            Selects(r) =>
               \A r2 \in Runners \ {r}, p \in PostIds :
                  (/\ pc[r2] = "publishing"
                   /\ p \in Range(due_posts[r2])
                   /\ DueAt(p, now)) =>
                      /\ due_posts'[r2] = due_posts[r2]
                      /\ pc'[r2] = "publishing"
                      /\ \E i \in 1..Len(due_posts'[r]) :
                            /\ due_posts'[r][i] = p
                            /\ loaded'[r][i].status = SCHEDULED
         ]_vars
    /\ [][\A r \in Runners :
            /\ Selects(r) => idx'[r] = 1
            /\ (pc[r] = "publishing" /\ idx'[r] # idx[r]) =>
                  \/ idx'[r] = idx[r] + 1 /\ idx'[r] <= Len(due_posts[r])
                                          /\ pc'[r] = "publishing"
                  \/ Ends(r) /\ idx[r] = Len(due_posts[r])
            /\ Ends(r) => idx[r] = Len(due_posts[r])
         ]_vars

\* a cycle has committed the publication of a post while another cycle,
\* which loaded the post as Scheduled, is in the worker's call for it
C28_Witness ==
    /\ last.op = "sweep" /\ last.committed /\ last.ret >= 1
    /\ \E r \in Runners \ {last.runner} :
          /\ pc[r] = "publishing"
          /\ LET p == due_posts[r][idx[r]] IN
             /\ posts[p].status = PUBLISHED
             /\ IsSet(posts[p].linkedin_post_id)
             /\ loaded[r][idx[r]].status = SCHEDULED
             /\ mem[r][idx[r]].status = SCHEDULED

----------------------------------------------------------------------------
(* C29: when unschedule_post, or a schedule_post for a later time, has     *)
(* committed for a post while a cycle that selected the post was suspended *)
(* in publish_post, the commit of that cycle leaves the change alone: a    *)
(* post that is Draft in the store is not made Published, and a post that  *)
(* is Scheduled for a time still ahead is not made Published and gets no   *)
(* error_message.                                                          *)
(* The code breaks it: the cycle's commit updates the columns it changed   *)
(* on the row it loaded, whatever the store holds by then.                 *)
C29_SweepKeepsUserChange ==
    [][\A r \in Runners :
         Ends(r) =>
            \A i \in 1..Len(due_posts[r]) :
               LET p == due_posts[r][i] IN
               /\ posts[p].status = DRAFT => posts'[p].status # PUBLISHED
               /\ (/\ posts[p].status = SCHEDULED
                   /\ IsSet(posts[p].scheduled_for)
                   /\ Val(posts[p].scheduled_for) > now) =>
                      /\ posts'[p].status # PUBLISHED
                      /\ posts'[p].error_message = posts[p].error_message
      ]_vars

----------------------------------------------------------------------------
(* C30: under schedule_post, unschedule_post and sweep cycles, in any      *)
(* interleaving, every change of the stored status of a post is Draft to   *)
(* Scheduled, Scheduled to Draft, Scheduled to Published or Scheduled to   *)
(* Failed: no post goes from Draft to Published, none leaves Published.    *)
(* The code breaks it: a cycle that selected a post commits Published over *)
(* an unschedule_post that made the post Draft while the cycle was         *)
(* suspended in publish_post.                                              *)
C30_StatusTransitions ==
    [][\A p \in PostIds :
         posts'[p].status # posts[p].status =>
            <<posts[p].status, posts'[p].status>> \in
               { <<DRAFT, SCHEDULED>>, <<SCHEDULED, DRAFT>>,
                 <<SCHEDULED, PUBLISHED>>, <<SCHEDULED, FAILED>> }
      ]_vars

----------------------------------------------------------------------------
(* C31: the failure schedule_post reports follows a fixed precedence.  An  *)
(* unknown post id gives 'Post not found' whatever the other arguments; a  *)
(* post that is neither Draft nor Scheduled gives the message citing its   *)
(* status, also when the date, hour or minute is invalid or the time is    *)
(* past; on a Draft or Scheduled post, invalid date, hour or minute gives  *)
(* an invalid-input message; and 'Cannot schedule post in the past' is     *)
(* reported only for a valid time not later than now on such a post.       *)
InvalidInputMsgs == {MsgBadDate, MsgHour, MsgMinute}

C31_FailurePrecedence ==
    [][ScheduleSeen =>
         LET post_id == last'.post_id IN
         IF post_id \notin PostIds THEN
             ~last'.success /\ last'.message = MsgNotFound
         ELSE IF posts[post_id].status \notin {DRAFT, SCHEDULED} THEN
             ~last'.success /\ last'.message = MsgCannot(posts[post_id].status)
         ELSE IF last'.success THEN
             last'.message = MsgScheduled
         ELSE
             \A a \in ScheduleArgs :
                ScheduleOutcome(posts, now, post_id, a[1], a[2], a[3], FALSE).message
                      = last'.message =>
                   IF ~WellFormed(a) THEN last'.message \in InvalidInputMsgs
                   ELSE IF Timestamp(a) <= now THEN last'.message = MsgPast
                   ELSE last'.message = MsgCommit
      ]_vars

\* schedule_post has just reported the status of a Published post, and the
\* same call with an invalid date and with a past time reports it too
C31_Witness ==
    /\ last.op = "schedule" /\ ~last.success
    /\ last.post_id \in PostIds
    /\ posts[last.post_id].status = PUBLISHED
    /\ last.message = MsgCannot(PUBLISHED)
    /\ \E a, b \in ScheduleArgs :
          /\ ~WellFormed(a)
          /\ WellFormed(b) /\ Timestamp(b) <= now
          /\ ScheduleOutcome(posts, now, last.post_id, a[1], a[2], a[3], TRUE).message
                = last.message
          /\ ScheduleOutcome(posts, now, last.post_id, b[1], b[2], b[3], TRUE).message
                = last.message
          /\ ScheduleOutcome(posts, now, Len(posts) + 1, b[1], b[2], b[3], TRUE).message
                = MsgNotFound

----------------------------------------------------------------------------
(* C32: schedule_post, unschedule_post, the cycles of the loop and the     *)
(* manual trigger never assign status Failed: with posts created as Draft  *)
(* or Published, no post in the store and no row held by a cycle is ever   *)
(* Failed, however many publications of it have failed.                    *)
C32_NeverFailed ==
    /\ \A p \in PostIds : posts[p].status # FAILED
    /\ \A r \in Runners :
          \A i \in 1..Len(mem[r]) : mem[r][i].status # FAILED

\* the worker has returned failure again for a post that a cycle loaded
\* with the message of an earlier failure
C32_Witness ==
    \E r \in Runners :
       /\ pc[r] = "publishing"
       /\ \E i \in 1..Len(outcome[r]) :
             /\ loaded[r][i].error_message = Some(MsgPublishFail)
             /\ outcome[r][i] = "failure"
             /\ mem[r][i].status = SCHEDULED
             /\ posts[due_posts[r][i]].status = SCHEDULED

----------------------------------------------------------------------------
----------------------------------------------------------------------------
(* C34: a stop_scheduler call made after the task of the loop was created  *)
(* and before the task's first step is not lost: the task does not go on   *)
(* to run cycles.                                                          *)
(* The code breaks it: the first step of run_scheduler sets running to     *)
(* True whatever stop_scheduler did before, and the loop then runs until   *)
(* the next stop_scheduler call or the cancellation of the task.           *)
C34_StopBeforeFirstStep ==
    [][\A l \in LoopTasks :
         (last.op = "stop" /\ pc[l] = "created") =>
            /\ pc'[l] \in {"created", "off"}
            /\ ~running'
      ]_vars

----------------------------------------------------------------------------
(* C35: create_post with a scheduled_for later than now, the store         *)
(* committing, stores the new post with status Scheduled and a             *)
(* scheduled_for later than now, also when scheduled_for is less than a    *)
(* minute ahead; and a create_post that fails leaves no post behind.       *)
(* The code breaks it: the time goes to schedule_post as date, hour and    *)
(* minute, the seconds are dropped, and a time less than a minute ahead    *)
(* becomes a time that is not later than now: the request is refused.      *)
CreateSeen == last'.op = "create" /\ UNCHANGED <<now, pc, idx>>

C35_CreateScheduled ==
    [][CreateSeen =>
         /\ ~last'.success => posts' = posts
         /\ \A st \in OptStatus, sf \in OptTime :
               (IsSet(sf) /\ Val(sf) > now /\ CreatePost(st, sf, TRUE)) =>
                  /\ last'.success
                  /\ Len(posts') = Len(posts) + 1
                  /\ posts'[Len(posts')].status = SCHEDULED
                  /\ IsSet(posts'[Len(posts')].scheduled_for)
                  /\ Val(posts'[Len(posts')].scheduled_for) > now
      ]_vars


====
